---- MODULE Spec2Model ----
(***************************************************************************)
(* The podcast pipeline of src/main.py: generate_podcast calls the         *)
(* text-generation service, falls back to generate_template on a rate      *)
(* limit, then synthesize_tts resolves the voice (resolve_voice_id) and     *)
(* posts the script to the speech service; the handler encodes the audio   *)
(* and builds the PodcastResponse.                                         *)
(*                                                                         *)
(* Text is a sequence of fragments (strings); concatenation is \o and the  *)
(* empty text is <<>>.  Text the code inspects character by character      *)
(* (voice names, identifiers, the service's completion) has one character  *)
(* per fragment.  Bytes are sequences of integers 0..255.                  *)
(***************************************************************************)
EXTENDS Integers, Sequences, FiniteSets, TLC

VARIABLES
    pc,         \* position of the request inside generate_podcast
    req,        \* the PodcastRequest: [topic, voice_id]
    gen,        \* what the text-generation call produced
    script,     \* the local variable script of generate_podcast
    tts_args,   \* the arguments synthesize_tts was invoked with
    listing,    \* what the voice-listing call produced
    resolved,   \* what resolve_voice_id returned or raised
    voice_id,   \* the local variable voice_id of synthesize_tts
    tts_req,    \* the speech-synthesis request that was posted
    synth,      \* what the speech-synthesis call produced
    ret,        \* the value synthesize_tts returned
    response,   \* the outcome handed to the HTTP layer
    calls       \* the outbound calls issued so far, in order

vars ==
    <<pc, req, gen, script, tts_args, listing, resolved, voice_id, tts_req, synth, ret,
      response, calls>>

-----------------------------------------------------------------------------
(* Bounds of the model *)

MaxContentLen == 3
MaxVoices == 2
MaxAudioLen == 3

(* Program constants *)

UuidLen == 36
UuidDashes == 4
ErrorStatus == 500

-----------------------------------------------------------------------------
(* Generic helpers *)

None == [kind |-> "None"]

SeqsUpTo(S, n) == UNION {[1..k -> S] : k \in 0..n}

RECURSIVE Concat(_)
Concat(ss) == IF ss = <<>> THEN <<>> ELSE Head(ss) \o Concat(Tail(ss))

Count(s, c) == Cardinality({i \in 1..Len(s) : s[i] = c})

\* str.lower() on the letters the model uses
LowerChar(c) ==
    CASE c = "A" -> "a" [] c = "R" -> "r" [] c = "I" -> "i"
      [] c = "Z" -> "z" [] c = "E" -> "e" [] c = "D" -> "d"
      [] OTHER -> c

Lower(s) == [i \in 1..Len(s) |-> LowerChar(s[i])]

IsSpace(c) == c \in {" ", "\t", "\n", "\r"}

RECURSIVE LStrip(_)
LStrip(s) == IF s # <<>> /\ IsSpace(Head(s)) THEN LStrip(Tail(s)) ELSE s

RECURSIVE RStrip(_)
RStrip(s) ==
    IF s # <<>> /\ IsSpace(s[Len(s)]) THEN RStrip(SubSeq(s, 1, Len(s) - 1)) ELSE s

\* str.strip()
Strip(s) == RStrip(LStrip(s))

-----------------------------------------------------------------------------
(* Exceptions: a class and a message; the class hierarchy decides which    *)
(* except clause takes an exception.                                       *)

Parent(cls) ==
    CASE cls = "RateLimitError" -> "OpenAIError"
      [] cls = "APIError" -> "OpenAIError"
      [] cls = "AuthenticationError" -> "OpenAIError"
      [] cls = "OpenAIError" -> "Exception"
      [] cls = "HTTPError" -> "RequestException"
      [] cls = "ConnectionError" -> "RequestException"
      [] cls = "Timeout" -> "RequestException"
      [] cls = "RequestException" -> "Exception"
      [] cls = "JSONDecodeError" -> "ValueError"
      [] cls = "ValueError" -> "Exception"
      [] OTHER -> "BaseException"

RECURSIVE IsInstance(_, _)
IsInstance(cls, base) ==
    \/ cls = base
    \/ cls # "BaseException" /\ IsInstance(Parent(cls), base)

Exc(cls, msg) == [kind |-> "exception", cls |-> cls, msg |-> msg]

Raised(e) == [raised |-> TRUE, exc |-> e]

Returned(v) == [raised |-> FALSE, value |-> v]

-----------------------------------------------------------------------------
(* The request *)

Topics == {<<"Climate Change">>, <<"A", "I">>}

\* a string of the given length whose even positions 2, 4, ... 2*dashes are '-'
Shaped(len, dashes) ==
    [i \in 1..len |-> IF i % 2 = 0 /\ i \div 2 <= dashes THEN "-" ELSE "f"]

Rep(c, n) == [i \in 1..n |-> c]

\* an identifier laid out 8-4-4-4-12
Uuid ==
    Rep("0", 8) \o <<"-">> \o Rep("1", 4) \o <<"-">> \o Rep("2", 4) \o <<"-">>
        \o Rep("3", 4) \o <<"-">> \o Rep("4", 12)

VoiceNames == {<<"A", "r", "i", "a">>, <<"a", "R", "I", "A">>, <<"Z", "e", "d">>}

VoiceInputs ==
    VoiceNames
        \cup {Uuid}
        \cup {Shaped(len, d) : len \in {UuidLen - 1, UuidLen}, d \in (UuidDashes - 1)..(UuidDashes + 1)}

PodcastRequest == [topic : Topics, voice_id : VoiceInputs]

-----------------------------------------------------------------------------
(* Script generation *)

ContentChars == {" ", "w"}

\* what openai.ChatCompletion.create can produce: a completion or an OpenAIError
TextGenOutcomes ==
    {[kind |-> "completion", content |-> c] : c \in SeqsUpTo(ContentChars, MaxContentLen)}
        \cup {Exc("RateLimitError", <<"Rate limit reached">>),
              Exc("APIError", <<"The server had an error">>),
              Exc("AuthenticationError", <<"Incorrect API key provided">>)}

generate_with_openai(topic, out) ==
    IF out.kind = "exception" THEN Raised(out) ELSE Returned(Strip(out.content))

LDQUO == "(U+201C)"
RDQUO == "(U+201D)"
RSQUO == "(U+2019)"

generate_template(topic) ==
    Concat(<<
        <<"[Intro]\nWelcome to our deep dive on ", LDQUO>>, topic,
        <<".", RDQUO, " In today", RSQUO, "s episode...\n\n">>,
        <<"[Section 1: Definition]\nDefine ">>, topic, <<" clearly...\n\n">>,
        <<"[Section 2: Current Challenges]\nDiscuss challenges...\n\n">>,
        <<"[Section 3: Real-world Examples]\nShare examples...\n\n">>,
        <<"[Closing]\nThank you for listening to ">>, topic, <<"!">> >>)

HTTPException(status, detail) ==
    [kind |-> "HTTPException", status_code |-> status, detail |-> detail]

\* ScriptStage with every OpenAIError answered by the fallback template
ScriptStage_fallback_on_any_error(topic, out) ==
    LET r == generate_with_openai(topic, out) IN
    IF ~r.raised THEN Returned(r.value)
    ELSE IF IsInstance(r.exc.cls, "OpenAIError") THEN Returned(generate_template(topic))
    ELSE Raised(r.exc)

\* ScriptStage with the except clauses in the other order: OpenAIError first
ScriptStage_except_order(topic, out) ==
    LET r == generate_with_openai(topic, out) IN
    IF ~r.raised THEN Returned(r.value)
    ELSE IF IsInstance(r.exc.cls, "OpenAIError")
        THEN Raised(HTTPException(ErrorStatus, <<"OpenAI error: ">> \o r.exc.msg))
    ELSE IF IsInstance(r.exc.cls, "RateLimitError") THEN Returned(generate_template(topic))
    ELSE Raised(r.exc)

\* the try/except of generate_podcast around generate_with_openai
ScriptStage(topic, out) ==
    LET r == generate_with_openai(topic, out) IN
    IF ~r.raised THEN Returned(r.value)
    ELSE IF IsInstance(r.exc.cls, "RateLimitError") THEN Returned(generate_template(topic))
    ELSE IF IsInstance(r.exc.cls, "OpenAIError")
        THEN Raised(HTTPException(ErrorStatus, <<"OpenAI error: ">> \o r.exc.msg))
    ELSE Raised(r.exc)

-----------------------------------------------------------------------------
(* HTTP responses of the speech service *)

HttpResponse(status, body) == [kind |-> "response", status_code |-> status, body |-> body]

\* requests.Response.raise_for_status
raise_for_status(r, url) ==
    IF r.status_code >= 400 /\ r.status_code < 500
        THEN Raised(Exc("HTTPError", <<ToString(r.status_code), " Client Error for url: ">> \o url))
    ELSE IF r.status_code >= 500 /\ r.status_code < 600
        THEN Raised(Exc("HTTPError", <<ToString(r.status_code), " Server Error for url: ">> \o url))
    ELSE Returned(None)

TransportErrors ==
    {Exc("ConnectionError", <<"Connection aborted.">>), Exc("Timeout", <<"Read timed out.">>)}

-----------------------------------------------------------------------------
(* Voice resolution *)

Voice(name, id) == [name |-> name, voice_id |-> id]

Voices ==
    {Voice(<<"A", "r", "i", "a">>, <<"id-1">>),
     Voice(<<"A", "R", "I", "A">>, <<"id-2">>),
     Voice(<<"Z", "e", "d">>, <<"id-3">>)}

VoicesUrl == <<"https://api.elevenlabs.io/v1/voices">>

\* what requests.get on the voice list can produce
VoiceListOutcomes ==
    TransportErrors
        \cup {HttpResponse(200, [kind |-> "json", voices |-> vs]) : vs \in SeqsUpTo(Voices, MaxVoices)}
        \cup {HttpResponse(200, [kind |-> "json_without_voices"]),
              HttpResponse(200, [kind |-> "not_json"]),
              HttpResponse(401, [kind |-> "not_json"]),
              HttpResponse(503, [kind |-> "not_json"])}

\* r.json().get("voices", [])
JsonVoices(body) == IF body.kind = "json" THEN body.voices ELSE <<>>

\* repr of a list of strings
RECURSIVE ReprItems(_)
ReprItems(names) ==
    IF names = <<>> THEN <<>>
    ELSE <<"'">> \o Head(names) \o <<"'">>
            \o (IF Len(names) > 1 THEN <<", ">> ELSE <<>>) \o ReprItems(Tail(names))

ListRepr(names) == <<"[">> \o ReprItems(names) \o <<"]">>

\* IsUuidShaped counting one separator too many
IsUuidShaped_off_by_one(v) == Len(v) = UuidLen /\ Count(v, "-") = UuidDashes + 1

IsUuidShaped(v) == Len(v) = UuidLen /\ Count(v, "-") = UuidDashes

\* FirstMatch comparing the names as they are, without lower()
FirstMatch_case_sensitive(voices, v) ==
    LET hits == {i \in 1..Len(voices) : voices[i].name = v} IN
    IF hits = {} THEN 0 ELSE CHOOSE i \in hits : \A j \in hits : i <= j

FirstMatch(voices, v) ==
    LET hits == {i \in 1..Len(voices) : Lower(voices[i].name) = Lower(v)} IN
    IF hits = {} THEN 0 ELSE CHOOSE i \in hits : \A j \in hits : i <= j

VoiceNotFound(v, voices) ==
    Exc("ValueError",
        <<"Voice '">> \o v \o <<"' not found. Available: ">>
            \o ListRepr([i \in 1..Len(voices) |-> voices[i].name]))

\* resolve_voice_id; out is what the voice-listing call produces when it is issued.
\* The result carries the outbound calls the function issued.
resolve_voice_id(v, out) ==
    IF IsUuidShaped(v) THEN [raised |-> FALSE, value |-> v, calls |-> <<>>]
    ELSE LET issued == <<"GET voices">> IN
         IF out.kind = "exception" THEN [raised |-> TRUE, exc |-> out, calls |-> issued]
         ELSE IF raise_for_status(out, VoicesUrl).raised
             THEN [raised |-> TRUE, exc |-> raise_for_status(out, VoicesUrl).exc, calls |-> issued]
         ELSE IF out.body.kind = "not_json"
             THEN [raised |-> TRUE,
                   exc |-> Exc("JSONDecodeError", <<"Expecting value: line 1 column 1 (char 0)">>),
                   calls |-> issued]
         ELSE LET voices == JsonVoices(out.body)
                  i == FirstMatch(voices, v)
              IN  IF i # 0 THEN [raised |-> FALSE, value |-> voices[i].voice_id, calls |-> issued]
                  ELSE [raised |-> TRUE, exc |-> VoiceNotFound(v, voices), calls |-> issued]

-----------------------------------------------------------------------------
(* Speech synthesis *)

AudioByteValues == {0, 255}

TtsOutcomes ==
    TransportErrors
        \cup {HttpResponse(200, b) : b \in SeqsUpTo(AudioByteValues, MaxAudioLen)}
        \cup {HttpResponse(401, <<>>), HttpResponse(500, <<>>)}

TtsUrl(vid) ==
    <<"https://api.elevenlabs.io/v1/text-to-speech/">> \o vid
        \o <<"/stream", "?optimize_streaming_latency=0">>

TtsRequest(vid, text) ==
    [url |-> TtsUrl(vid),
     json |-> [text |-> text, voice_settings |-> [stability |-> "0.5", similarity_boost |-> "0.75"]]]

TtsResult(audio, err) == [audio_bytes |-> audio, tts_error |-> err]

\* synthesize_resolve returning no message when the resolution fails
synthesize_resolve_no_message(voice_input, out) ==
    LET r == resolve_voice_id(voice_input, out) IN
    IF r.raised
        THEN [raised |-> FALSE, returned |-> TRUE, calls |-> r.calls, value |-> TtsResult(<<>>, <<>>)]
    ELSE [raised |-> FALSE, returned |-> FALSE, calls |-> r.calls, voice_id |-> r.value]

\* synthesize_resolve going on to the synthesis with the unresolved input
synthesize_resolve_falls_through(voice_input, out) ==
    LET r == resolve_voice_id(voice_input, out) IN
    [raised |-> FALSE, returned |-> FALSE, calls |-> r.calls,
     voice_id |-> IF r.raised THEN voice_input ELSE r.value]

\* synthesize_tts up to the return on a failed resolution: either the function
\* returns, or it goes on to the synthesis request with the resolved voice_id
synthesize_resolve(voice_input, out) ==
    LET r == resolve_voice_id(voice_input, out) IN
    IF r.raised /\ IsInstance(r.exc.cls, "Exception")
        THEN [raised |-> FALSE, returned |-> TRUE, calls |-> r.calls,
              value |-> TtsResult(<<>>, <<"Voice lookup error: ">> \o r.exc.msg)]
    ELSE IF r.raised
        THEN [raised |-> TRUE, returned |-> FALSE, calls |-> r.calls, exc |-> r.exc]
    ELSE [raised |-> FALSE, returned |-> FALSE, calls |-> r.calls, voice_id |-> r.value]

\* synthesize_post catching HTTPError only: a transport error leaves the function
synthesize_post_narrow_except(text, vid, out) ==
    LET url == TtsUrl(vid)
        r == IF out.kind = "exception" THEN Raised(out)
             ELSE IF raise_for_status(out, url).raised THEN raise_for_status(out, url)
             ELSE Returned(TtsResult(out.body, <<>>))
    IN  IF r.raised /\ IsInstance(r.exc.cls, "HTTPError")
            THEN Returned(TtsResult(<<>>, r.exc.msg))
        ELSE r

\* synthesize_tts from the construction of the request to its return;
\* out is what requests.post produces
synthesize_post(text, vid, out) ==
    LET url == TtsUrl(vid)
        r == IF out.kind = "exception" THEN Raised(out)
             ELSE IF raise_for_status(out, url).raised THEN raise_for_status(out, url)
             ELSE Returned(TtsResult(out.body, <<>>))
    IN  IF r.raised /\ IsInstance(r.exc.cls, "Exception")
            THEN Returned(TtsResult(<<>>, r.exc.msg))
        ELSE r

-----------------------------------------------------------------------------
(* Encoding *)

B64Alphabet ==
    <<"A", "B", "C", "D", "E", "F", "G", "H", "I", "J", "K", "L", "M", "N", "O", "P",
      "Q", "R", "S", "T", "U", "V", "W", "X", "Y", "Z", "a", "b", "c", "d", "e", "f",
      "g", "h", "i", "j", "k", "l", "m", "n", "o", "p", "q", "r", "s", "t", "u", "v",
      "w", "x", "y", "z", "0", "1", "2", "3", "4", "5", "6", "7", "8", "9", "+", "/">>

B64Char(n) == B64Alphabet[(n % 64) + 1]

\* base64.b64encode(b).decode("utf-8")
RECURSIVE b64encode(_)
b64encode(b) ==
    IF Len(b) = 0 THEN <<>>
    ELSE IF Len(b) = 1 THEN
        LET n == b[1] * 65536 IN
        <<B64Char(n \div 262144), B64Char(n \div 4096), "=", "=">>
    ELSE IF Len(b) = 2 THEN
        LET n == b[1] * 65536 + b[2] * 256 IN
        <<B64Char(n \div 262144), B64Char(n \div 4096), B64Char(n \div 64), "=">>
    ELSE
        LET n == b[1] * 65536 + b[2] * 256 + b[3] IN
        <<B64Char(n \div 262144), B64Char(n \div 4096), B64Char(n \div 64), B64Char(n)>>
            \o b64encode(SubSeq(b, 4, Len(b)))

PodcastResponse(s, audio_b64, err) ==
    [kind |-> "PodcastResponse", script |-> s, audio_base64 |-> audio_b64, tts_error |-> err]

\* BuildResponse without the catch-all message
BuildResponse_no_catch_all(s, r) ==
    LET audio_b64 == IF r.audio_bytes # <<>> THEN b64encode(r.audio_bytes) ELSE <<>>
    IN  PodcastResponse(s, audio_b64, r.tts_error)

\* generate_podcast after synthesize_tts returned: catch-all, encoding, response
BuildResponse(s, r) ==
    LET tts_error == IF r.audio_bytes = <<>> /\ r.tts_error = <<>>
                        THEN <<"Unknown TTS failure">> ELSE r.tts_error
        audio_b64 == IF r.audio_bytes # <<>> THEN b64encode(r.audio_bytes) ELSE <<>>
    IN  PodcastResponse(s, audio_b64, tts_error)

-----------------------------------------------------------------------------
(* The request as a state machine *)

Init ==
    /\ pc = "start"
    /\ req \in PodcastRequest
    /\ gen = None
    /\ script = <<>>
    /\ tts_args = None
    /\ listing = None
    /\ resolved = None
    /\ voice_id = <<>>
    /\ tts_req = None
    /\ synth = None
    /\ ret = None
    /\ response = None
    /\ calls = <<>>

\* an exception nothing catches leaves the handler
Unhandled(e) ==
    /\ pc' = "failed"
    /\ response' = e

\* generate_podcast, the script stage
GenerateScript ==
    /\ pc = "start"
    /\ \E out \in TextGenOutcomes :
        LET r == ScriptStage(req.topic, out) IN
        /\ gen' = out
        /\ calls' = Append(calls, "ChatCompletion.create")
        /\ IF r.raised
              THEN Unhandled(r.exc) /\ UNCHANGED script
              ELSE pc' = "synthesize" /\ script' = r.value /\ UNCHANGED response
    /\ UNCHANGED <<req, tts_args, listing, resolved, voice_id, tts_req, synth, ret>>

\* synthesize_tts is invoked and resolves the voice
ResolveVoice ==
    /\ pc = "synthesize"
    /\ \E out \in (IF IsUuidShaped(req.voice_id) THEN {None} ELSE VoiceListOutcomes) :
        LET r == synthesize_resolve(req.voice_id, out) IN
        /\ tts_args' = [text |-> script, voice_input |-> req.voice_id]
        /\ listing' = out
        /\ resolved' = resolve_voice_id(req.voice_id, out)
        /\ calls' = calls \o r.calls
        /\ IF r.raised
              THEN Unhandled(r.exc) /\ UNCHANGED <<ret, voice_id>>
           ELSE IF r.returned
              THEN pc' = "respond" /\ ret' = r.value /\ UNCHANGED <<response, voice_id>>
           ELSE pc' = "post" /\ voice_id' = r.voice_id /\ UNCHANGED <<response, ret>>
    /\ UNCHANGED <<req, gen, script, tts_req, synth>>

\* PostSynthesis posting a second time when the first request fails
PostSynthesis_retry ==
    /\ pc = "post"
    /\ \E out \in TtsOutcomes :
        LET r == synthesize_post(tts_args.text, voice_id, out) IN
        /\ tts_req' = TtsRequest(voice_id, tts_args.text)
        /\ synth' = out
        /\ calls' = IF r.value.tts_error # <<>>
                       THEN calls \o <<"POST text-to-speech", "POST text-to-speech">>
                       ELSE Append(calls, "POST text-to-speech")
        /\ pc' = "respond" /\ ret' = r.value /\ UNCHANGED response
    /\ UNCHANGED <<req, gen, script, tts_args, listing, resolved, voice_id>>

\* synthesize_tts posts the synthesis request and returns
PostSynthesis ==
    /\ pc = "post"
    /\ \E out \in TtsOutcomes :
        LET r == synthesize_post(tts_args.text, voice_id, out) IN
        /\ tts_req' = TtsRequest(voice_id, tts_args.text)
        /\ synth' = out
        /\ calls' = Append(calls, "POST text-to-speech")
        /\ IF r.raised
              THEN Unhandled(r.exc) /\ UNCHANGED ret
              ELSE pc' = "respond" /\ ret' = r.value /\ UNCHANGED response
    /\ UNCHANGED <<req, gen, script, tts_args, listing, resolved, voice_id>>

\* generate_podcast builds and returns the response
Respond ==
    /\ pc = "respond"
    /\ pc' = "done"
    /\ response' = BuildResponse(script, ret)
    /\ UNCHANGED <<req, gen, script, tts_args, listing, resolved, voice_id, tts_req, synth, ret, calls>>

Next == GenerateScript \/ ResolveVoice \/ PostSynthesis \/ Respond

Spec == Init /\ [][Next]_vars

-----------------------------------------------------------------------------
(* Properties *)

\* the text-generation call failed with an OpenAIError that is not a rate limit
ServiceErrorFromTextGen ==
    /\ gen.kind = "exception"
    /\ IsInstance(gen.cls, "OpenAIError")
    /\ ~IsInstance(gen.cls, "RateLimitError")

RateLimitedTextGen == gen.kind = "exception" /\ gen.cls = "RateLimitError"

\* s occurs in text as a contiguous run of fragments
Contains(text, s) ==
    \E k \in 0..(Len(text) - Len(s)) : SubSeq(text, k + 1, k + Len(s)) = s

EqualIgnoringCase(a, b) == Lower(a) = Lower(b)

\* C1: a request fails at the request level only through a non-rate-limit
\* OpenAIError of the text-generation call; every other request, whatever the
\* voice listing and the synthesis do, goes on to a PodcastResponse that
\* carries the script.
C1_OnlyServiceErrorFails ==
    /\ pc = "failed" => ServiceErrorFromTextGen /\ response.kind = "HTTPException"
    /\ (gen # None /\ ~ServiceErrorFromTextGen) =>
        /\ pc # "failed"
        /\ pc # "done" => ENABLED Next
        /\ pc = "done" => response.kind = "PodcastResponse" /\ response.script = script

C1_Witness ==
    /\ pc = "done"
    /\ RateLimitedTextGen
    /\ synth \in TransportErrors
    /\ response.kind = "PodcastResponse"
    /\ response.tts_error # <<>>

\* C2: when the text-generation call fails with a non-rate-limit OpenAIError
\* the request ends with the server-error outcome, and neither the
\* voice-listing call nor the synthesis call is issued.
C2_ServiceErrorAborts ==
    (gen # None /\ ServiceErrorFromTextGen) =>
        /\ pc = "failed"
        /\ response.kind = "HTTPException"
        /\ response.status_code = ErrorStatus
        /\ response.detail = <<"OpenAI error: ">> \o gen.msg
        /\ calls = <<"ChatCompletion.create">>
        /\ tts_args = None /\ listing = None /\ tts_req = None
        /\ ~ENABLED Next

C2_Witness ==
    /\ pc = "failed"
    /\ gen.kind = "exception"
    /\ gen.cls = "APIError"
    /\ response.kind = "HTTPException"

\* C3: on a rate limit the script is generate_template(topic) exactly,
\* synthesize_tts is invoked with that script and the request's voice_id, and
\* the request does not fail.
C3_RateLimitFallback ==
    (gen # None /\ RateLimitedTextGen) =>
        /\ script = generate_template(req.topic)
        /\ pc # "failed"
        /\ pc = "synthesize" => ENABLED ResolveVoice
        /\ pc # "synthesize" =>
            tts_args = [text |-> generate_template(req.topic), voice_input |-> req.voice_id]
        /\ pc = "done" =>
            /\ response.kind = "PodcastResponse"
            /\ response.script = generate_template(req.topic)

C3_Witness ==
    /\ pc = "done"
    /\ RateLimitedTextGen
    /\ req.topic = <<"Climate Change">>
    /\ tts_req # None
    /\ tts_req.json.text = generate_template(<<"Climate Change">>)
    /\ response.audio_base64 # <<>>

\* C4 as stated: synthesize_tts never raises and returns either (non-empty
\* audio, empty message) or (empty audio, non-empty message), never empty
\* audio with an empty message.
C4_TwoShapes ==
    /\ pc = "failed" => calls = <<"ChatCompletion.create">>
    /\ ret # None =>
        \/ ret.audio_bytes # <<>> /\ ret.tts_error = <<>>
        \/ ret.audio_bytes = <<>> /\ ret.tts_error # <<>>

\* C4 amended: synthesize_tts never raises; a failed resolution or a failed
\* synthesis call returns (empty audio, non-empty message), a successful
\* synthesis call returns (the response body, empty message), and so empty
\* audio with an empty message is returned exactly when the synthesis call
\* succeeds with an empty body.
C4_ThreeShapes ==
    /\ pc = "failed" => calls = <<"ChatCompletion.create">>
    /\ ret # None =>
        LET ok == synth # None /\ synth.kind = "response" /\ synth.status_code = 200 IN
        /\ ~ok => ret.audio_bytes = <<>> /\ ret.tts_error # <<>>
        /\ ok => ret.audio_bytes = synth.body /\ ret.tts_error = <<>>

C4_Witness ==
    /\ ret # None
    /\ synth # None /\ synth.kind = "response" /\ synth.status_code = 200
    /\ synth.body = <<>>
    /\ ret.audio_bytes = <<>>
    /\ ret.tts_error = <<>>

\* C5: in every PodcastResponse exactly one of audio_base64 and tts_error is
\* non-empty, and the pair (empty audio, empty message) of synthesize_tts is
\* answered with tts_error = "Unknown TTS failure".
C5_AudioXorError ==
    (pc = "done" /\ response.kind = "PodcastResponse") =>
        /\ (response.audio_base64 # <<>>) # (response.tts_error # <<>>)
        /\ (response.audio_base64 # <<>>) = (ret.audio_bytes # <<>>)
        /\ (ret.audio_bytes = <<>> /\ ret.tts_error = <<>>) =>
            response.tts_error = <<"Unknown TTS failure">>

C5_Witness ==
    /\ pc = "done"
    /\ ret.audio_bytes = <<>>
    /\ ret.tts_error = <<>>
    /\ response.audio_base64 = <<>>
    /\ response.tts_error = <<"Unknown TTS failure">>

\* C6: a voice input of 36 characters with exactly four '-' is returned
\* unchanged by resolve_voice_id without the voice-listing call, and the
\* synthesis request is addressed to exactly that identifier.
C6_IdentifierVerbatim ==
    (Len(req.voice_id) = UuidLen /\ Count(req.voice_id, "-") = UuidDashes /\ resolved # None) =>
        /\ resolved = [raised |-> FALSE, value |-> req.voice_id, calls |-> <<>>]
        /\ listing = None
        /\ \A i \in 1..Len(calls) : calls[i] # "GET voices"
        /\ voice_id = req.voice_id
        /\ tts_req # None =>
            tts_req.url = <<"https://api.elevenlabs.io/v1/text-to-speech/">> \o req.voice_id
                            \o <<"/stream", "?optimize_streaming_latency=0">>

C6_Witness ==
    /\ req.voice_id = Shaped(UuidLen, UuidDashes)
    /\ tts_req # None
    /\ calls = <<"ChatCompletion.create", "POST text-to-speech">>

\* C7: when the voice resolution fails, for whatever reason, no synthesis
\* request is issued, synthesize_tts returns empty audio with the message
\* "Voice lookup error: <details>", and the request ends with a normal
\* response whose audio_base64 is empty and whose tts_error is that message.
C7_LookupFailureContained ==
    (resolved # None /\ resolved.raised) =>
        LET message == <<"Voice lookup error: ">> \o resolved.exc.msg IN
        /\ pc \in {"respond", "done"}
        /\ tts_req = None
        /\ \A i \in 1..Len(calls) : calls[i] # "POST text-to-speech"
        /\ ret = [audio_bytes |-> <<>>, tts_error |-> message]
        /\ pc = "done" =>
            response = [kind |-> "PodcastResponse", script |-> script,
                        audio_base64 |-> <<>>, tts_error |-> message]

C7_Witness ==
    /\ pc = "done"
    /\ req.voice_id = <<"Z", "e", "d">>
    /\ response.kind = "PodcastResponse"
    /\ response.audio_base64 = <<>>
    /\ response.tts_error =
        <<"Voice lookup error: ", "Voice '", "Z", "e", "d", "' not found. Available: ",
          "[", "'", "A", "r", "i", "a", "'", ", ", "'", "A", "R", "I", "A", "'", "]">>

C9_ScriptNonEmpty ==
    (pc = "done" /\ response.kind = "PodcastResponse") =>
        /\ response.script # <<>>
        /\ gen.kind = "completion" => response.script = Strip(gen.content)
        /\ gen.kind = "exception" => response.script = generate_template(req.topic)

\* C10: the outbound calls of a request are sequential and none is repeated:
\* the text-generation call comes first and once, the voice-listing call at
\* most once and only after the script stage produced a script, the synthesis
\* call at most once and only after the resolution succeeded.
C10_CallsSequentialOnce ==
    /\ calls \in {<<>>,
                  <<"ChatCompletion.create">>,
                  <<"ChatCompletion.create", "GET voices">>,
                  <<"ChatCompletion.create", "POST text-to-speech">>,
                  <<"ChatCompletion.create", "GET voices", "POST text-to-speech">>}
    /\ (calls = <<>>) = (pc = "start")
    /\ Len(calls) > 1 => gen # None /\ ~ServiceErrorFromTextGen /\ tts_args.text = script
    /\ (\E i \in 1..Len(calls) : calls[i] = "POST text-to-speech") =>
        /\ resolved # None
        /\ ~resolved.raised
        /\ tts_req.url = TtsUrl(resolved.value)
    /\ (synth # None /\ synth.kind = "exception") => pc \in {"respond", "done"}

C10_Witness ==
    /\ pc = "done"
    /\ calls = <<"ChatCompletion.create", "GET voices", "POST text-to-speech">>
    /\ synth \in TransportErrors

====
